---- MODULE Spec2Model ----
(***************************************************************************)
(* Model of time.SyncController.Run                                        *)
(* (internal/app/machined/pkg/controllers/time/sync.go).                   *)
(*                                                                         *)
(* The reconciliation loop is one process; the goroutine that runs the     *)
(* NTP syncer is a second one; the resource store, the clock, the Go       *)
(* timers and the syncer's signal channels are the environment.            *)
(* The loop blocks at three places only: the select, the syncWg.Wait() of  *)
(* the stop branch and the syncWg.Wait() of the deferred teardown; each    *)
(* loop action runs the code from one blocking point to the next.          *)
(***************************************************************************)
EXTENDS Integers, Sequences, FiniteSets, TLC

\* ---------------------------------------------------------------- bounds
MaxTime == 2
MaxWorkers == 2
MaxTimers == 2
MaxEpoch == 1
MaxChanges == 3
\* the runs checked for termination: fewer notifications, a shorter clock
LiveChanges == 2
LiveTime == 1

\* ------------------------------------------------------------- constants
Nil == 0
BootTime == 0

Workers == 1..MaxWorkers
TimerIds == 1..MaxTimers
ServerLists == {<<"a">>, <<"a", "b">>}
Failures == {"none", "ts", "cfg", "modify"}
Errors == Failures \ {"none"}

NoConfig == [found |-> FALSE, disabled |-> FALSE, bootTimeout |-> 0]
Configs ==
    {NoConfig} \cup
    {[found |-> TRUE, disabled |-> d, bootTimeout |-> t] :
        d \in BOOLEAN, t \in 0..MaxTime}

NoTimeServers == [found |-> FALSE, servers |-> <<>>]
TimeServerStatuses ==
    {NoTimeServers} \cup {[found |-> TRUE, servers |-> l] : l \in ServerLists}

NoTimer == [armed |-> FALSE, deadline |-> 0, pending |-> FALSE]

StatusSpec(e, s, d) ==
    [written |-> TRUE, epoch |-> e, synced |-> s, syncDisabled |-> d]
NoStatus ==
    [written |-> FALSE, epoch |-> 0, synced |-> FALSE, syncDisabled |-> FALSE]

VARIABLES
    \* environment
    now,            \* wall clock, in ticks since ctrl.bootTime
    cfg,            \* the MachineConfig resource in the store
    ts,             \* the TimeServerStatus resource in the store
    container,      \* ctrl.V1Alpha1Mode == ModeContainer
    ctxCancelled,   \* ctx.Done() is closed
    eventPending,   \* r.EventCh() holds an event
    changes,        \* number of notifications the runtime has sent
    \* locals of Run
    pc, result,
    syncer, syncCh, epochCh, syncCtx,
    timeSynced, epoch,
    timer, timerCh,
    \* shared with the syncer goroutine and the runtime
    cancelled,      \* the sync contexts whose cancel function was called
    syncWg,         \* syncWg's counter
    task,           \* the goroutine started for each syncer instance
    taskRun,        \* the syncer the goroutine found in `syncer`
    taskCtx,        \* the context the goroutine found in `syncCtx`
    timers,         \* the time.Timer objects
    nextInst,
    workerServers,  \* each syncer's time server list
    syncedReady,    \* each syncer's Synced() channel is ready
    epochPending,   \* each syncer's EpochChange() channel holds a value
    published,      \* the time.Status resource
    \* history
    last,           \* the locals and the tally of the loop's latest cycle
    epochRecv       \* number of epoch-changed signals taken by the select

envVars == <<now, cfg, ts, container, ctxCancelled, changes>>
taskVars == <<taskRun, taskCtx, syncedReady>>
loopVars ==
    <<eventPending, pc, result, syncer, syncCh, epochCh, syncCtx, timeSynced,
      epoch, timer, timerCh, cancelled, syncWg,
      task, timers, nextInst, workerServers, epochPending,
      published, last, epochRecv>>
vars == <<envVars, taskVars, loopVars>>

NoCycle ==
    [arm |-> "none", preSyncer |-> Nil, preSynced |-> FALSE,
     preArmed |-> FALSE, preServers |-> <<>>, notFound |-> FALSE,
     timeServers |-> <<>>, syncDisabled |-> FALSE, syncTimeout |-> 0,
     stops |-> 0, starts |-> 0, sets |-> 0, writes |-> 0, full |-> FALSE,
     failure |-> "none", overflow |-> FALSE]

\* A timer that is stopped or has fired and that Run no longer refers to is
\* garbage: nothing can observe it any more, and its identifier is reused.
Garbage(tm, h, c, t) == t # h /\ t # c /\ ~tm[t].armed

Collect(tm, h, c) ==
    [t \in TimerIds |-> IF Garbage(tm, h, c, t) THEN NoTimer ELSE tm[t]]

FreeTimers(tm, h, c) == {t \in TimerIds : Garbage(tm, h, c, t)}

\* The variables the loop writes, as one record.
State ==
    [eventPending |-> eventPending, pc |-> pc, result |-> result,
     syncer |-> syncer, syncCh |-> syncCh, epochCh |-> epochCh,
     syncCtx |-> syncCtx, timeSynced |-> timeSynced, epoch |-> epoch,
     timer |-> timer, timerCh |-> timerCh, cancelled |-> cancelled,
     syncWg |-> syncWg, task |-> task, timers |-> timers,
     nextInst |-> nextInst,
     workerServers |-> workerServers, epochPending |-> epochPending,
     published |-> published, last |-> last, epochRecv |-> epochRecv]

Commit(s) ==
    /\ eventPending' = s.eventPending
    /\ pc' = s.pc
    /\ result' = s.result
    /\ syncer' = s.syncer
    /\ syncCh' = s.syncCh
    /\ epochCh' = s.epochCh
    /\ syncCtx' = s.syncCtx
    /\ timeSynced' = s.timeSynced
    /\ epoch' = s.epoch
    /\ timer' = s.timer
    /\ timerCh' = s.timerCh
    /\ cancelled' = s.cancelled
    /\ syncWg' = s.syncWg
    /\ task' = s.task
    /\ timers' = Collect(s.timers, s.timer, s.timerCh)
    /\ nextInst' = s.nextInst
    /\ workerServers' = s.workerServers
    /\ epochPending' = s.epochPending
    /\ published' = s.published
    /\ last' = s.last
    /\ epochRecv' = s.epochRecv

\* No more syncers or timers are created than the model has identifiers for.
Bounded(s) == ~s.last.overflow

Init ==
    /\ now = BootTime
    /\ cfg \in Configs
    /\ ts \in TimeServerStatuses
    /\ container \in BOOLEAN
    /\ ctxCancelled = FALSE
    /\ changes = 0
    /\ eventPending = FALSE
    /\ pc = "select"
    /\ result = "running"
    /\ syncer = Nil
    /\ syncCh = Nil
    /\ epochCh = Nil
    /\ syncCtx = Nil
    /\ timeSynced = FALSE
    /\ epoch = 0
    /\ timer = Nil
    /\ timerCh = Nil
    /\ cancelled = {}
    /\ syncWg = 0
    /\ task = [i \in Workers |-> "none"]
    /\ taskRun = [i \in Workers |-> Nil]
    /\ taskCtx = [i \in Workers |-> Nil]
    /\ timers = [t \in TimerIds |-> NoTimer]
    /\ nextInst = 1
    /\ workerServers = [i \in Workers |-> <<>>]
    /\ syncedReady = [i \in Workers |-> FALSE]
    /\ epochPending = [i \in Workers |-> 0]
    /\ published = NoStatus
    /\ last = NoCycle
    /\ epochRecv = 0

\* ------------------------------------------------------------ time.Timer
\* t.Stop(): the timer no longer fires; a value already sent stays in t.C.
TimerStop(s, t) ==
    [s EXCEPT !.timers[t].armed = FALSE, !.timers[t].deadline = 0]

\* t.Reset(d) re-arms the timer whatever it returns.
TimerReset(s, t, d) ==
    [s EXCEPT !.timers[t].armed = TRUE, !.timers[t].deadline = now + d]

\* stdtime.NewTimer(d), stored in timeSyncTimeoutTimer / timeSyncTimeoutCh.
NewTimer(s, d) ==
    LET free == FreeTimers(s.timers, s.timer, s.timerCh)
        t == CHOOSE x \in free : \A y \in free : x <= y
    IN  IF free # {}
        THEN [s EXCEPT !.timers[t] =
                            [armed |-> TRUE, deadline |-> now + d, pending |-> FALSE],
                       !.timer = t,
                       !.timerCh = t]
        ELSE [s EXCEPT !.last.overflow = TRUE]

\* ------------------------------------------------------- deferred teardown
\* Faulty variant: the deferred function leaves the timer running.
DeferredNoTimerStop(s) == [s EXCEPT !.pc = "done"]

DeferredTimerStop(s) ==
    [(IF s.timer # Nil THEN TimerStop(s, s.timer) ELSE s) EXCEPT !.pc = "done"]

\* A call of the runtime returned the error f.
Failed(s, f) == [s EXCEPT !.last.failure = f]

\* `return err` runs the deferred function up to its syncWg.Wait().
Return(s, r) ==
    LET s1 == [s EXCEPT !.result = r]
    IN  IF s1.syncer # Nil
        THEN [s1 EXCEPT !.cancelled = @ \cup {s1.syncCtx}, !.pc = "deferWait"]
        ELSE DeferredTimerStop(s1)

\* Faulty variant: the loop does not wait for the goroutine.
WaitDoneNoWait == TRUE

\* syncWg.Wait() returns.
WaitDone == syncWg = 0

\* -------------------------------------------------------- one cycle of Run
\* Faulty variant: the mode flag counts only when a configuration exists.
SyncDisabledNeedsConfig == cfg.found /\ (container \/ cfg.disabled)

SyncDisabled == container \/ (cfg.found /\ cfg.disabled)

SyncTimeout == IF cfg.found THEN cfg.bootTimeout ELSE 0

\* Faulty variant: the synced flag is recomputed from the timeout in each cycle.
TimerStepUnsyncs(s, syncTimeout) ==
    LET u == [s EXCEPT !.timeSynced = FALSE]
        sinceBoot == now - BootTime
        d == syncTimeout - sinceBoot
    IN  IF syncTimeout = 0
        THEN [(IF u.timer # Nil THEN TimerStop(u, u.timer) ELSE u)
                 EXCEPT !.timerCh = Nil]
        ELSE IF sinceBoot > syncTimeout
        THEN [u EXCEPT !.timeSynced = TRUE]
        ELSE IF u.timer = Nil
        THEN NewTimer(u, d)
        ELSE IF u.timers[u.timer].armed
        THEN TimerReset(u, u.timer, d)
        ELSE NewTimer(TimerReset(u, u.timer, d), d)

TimerStep(s, syncTimeout) ==
    IF s.timeSynced THEN s
    ELSE LET sinceBoot == now - BootTime
             d == syncTimeout - sinceBoot
         IN  IF syncTimeout = 0
             THEN [(IF s.timer # Nil THEN TimerStop(s, s.timer) ELSE s)
                      EXCEPT !.timerCh = Nil]
             ELSE IF sinceBoot > syncTimeout
             THEN [s EXCEPT !.timeSynced = TRUE]
             ELSE IF s.timer = Nil
             THEN NewTimer(s, d)
             ELSE IF s.timers[s.timer].armed
             THEN TimerReset(s, s.timer, d)
             ELSE NewTimer(TimerReset(s, s.timer, d), d)

\* Faulty variant: starting a syncer also restarts the epoch count.
StartSyncerResetEpoch(s) ==
    LET i == s.nextInst
    IN  IF i \in Workers
        THEN [s EXCEPT !.syncer = i,
                       !.syncCh = i,
                       !.epochCh = i,
                       !.timeSynced = FALSE,
                       !.epoch = 0,
                       !.syncCtx = i,
                       !.syncWg = @ + 1,
                       !.task[i] = "spawned",
                       !.workerServers[i] = s.last.timeServers,
                       !.nextInst = @ + 1,
                       !.last.starts = @ + 1]
        ELSE [s EXCEPT !.last.overflow = TRUE]

\* Faulty variant: the start branch leaves the synced flag as it was.
StartSyncerKeepsSynced(s) ==
    LET i == s.nextInst
    IN  IF i \in Workers
        THEN [s EXCEPT !.syncer = i,
                       !.syncCh = i,
                       !.epochCh = i,
                       !.syncCtx = i,
                       !.syncWg = @ + 1,
                       !.task[i] = "spawned",
                       !.workerServers[i] = s.last.timeServers,
                       !.nextInst = @ + 1,
                       !.last.starts = @ + 1]
        ELSE [s EXCEPT !.last.overflow = TRUE]

StartSyncer(s) ==
    LET i == s.nextInst
    IN  IF i \in Workers
        THEN [s EXCEPT !.syncer = i,
                       !.syncCh = i,
                       !.epochCh = i,
                       !.timeSynced = FALSE,
                       !.syncCtx = i,
                       !.syncWg = @ + 1,
                       !.task[i] = "spawned",
                       !.workerServers[i] = s.last.timeServers,
                       !.nextInst = @ + 1,
                       !.last.starts = @ + 1]
        ELSE [s EXCEPT !.last.overflow = TRUE]

StopSyncer(s) ==
    [s EXCEPT !.cancelled = @ \cup {s.syncCtx},
              !.last.stops = @ + 1,
              !.pc = "stopWait"]

\* Faulty variant: the stop branch keeps the handle of the stopped syncer.
AfterStopKeepHandle(s) == [s EXCEPT !.syncCh = Nil, !.epochCh = Nil]

AfterStop(s) ==
    [s EXCEPT !.syncer = Nil, !.syncCh = Nil, !.epochCh = Nil,
              !.workerServers[s.syncer] = <<>>]

\* Faulty variant: the list is not passed on to the running syncer.
SetTimeServersSkipped(s) == s

SetTimeServers(s) ==
    IF s.syncer # Nil
    THEN [s EXCEPT !.workerServers[s.syncer] = s.last.timeServers,
                   !.last.sets = @ + 1]
    ELSE s

\* Faulty variant: a disabled sync does not count as synced.
ForceSyncedSkipped(s) == s

ForceSynced(s) ==
    IF s.last.syncDisabled THEN [s EXCEPT !.timeSynced = TRUE] ELSE s

\* Faulty variant: the write merges the synced field with the stored one.
ModifyMerged(s) ==
    [s EXCEPT !.published =
                  StatusSpec(s.epoch, s.published.synced \/ s.timeSynced,
                             s.last.syncDisabled),
              !.last.writes = @ + 1,
              !.last.full = TRUE,
              !.pc = "select"]

Modify(s) ==
    [s EXCEPT !.published = StatusSpec(s.epoch, s.timeSynced, s.last.syncDisabled),
              !.last.writes = @ + 1,
              !.last.full = TRUE,
              !.pc = "select"]

\* Faulty variant: the status is written although r.Modify reports an error.
FinishWritesOnError(s, f) ==
    LET s1 == ForceSynced(SetTimeServers(s))
    IN  IF f = "modify" THEN Return(Failed(Modify(s1), f), f) ELSE Modify(s1)

Finish(s, f) ==
    LET s1 == ForceSynced(SetTimeServers(s))
    IN  IF f = "modify" THEN Return(Failed(s1, f), f) ELSE Modify(s1)

\* Faulty variant: the start branch does not test `syncer == nil`.
LifecycleRestarts(s, f) ==
    IF s.last.syncDisabled /\ s.syncer # Nil THEN StopSyncer(s)
    ELSE IF ~s.last.syncDisabled THEN Finish(StartSyncer(s), f)
    ELSE Finish(s, f)

Lifecycle(s, f) ==
    IF s.last.syncDisabled /\ s.syncer # Nil THEN StopSyncer(s)
    ELSE IF ~s.last.syncDisabled /\ s.syncer = Nil THEN Finish(StartSyncer(s), f)
    ELSE Finish(s, f)

\* Faulty variant: a missing time server resource is read as an empty list.
ReconcileWithoutServers(s, f) ==
    IF f \in {"ts", "cfg"} THEN Return(Failed(s, f), f)
    ELSE LET s1 == [s EXCEPT !.last.notFound = ~ts.found,
                             !.last.timeServers = ts.servers,
                             !.last.syncDisabled = SyncDisabled,
                             !.last.syncTimeout = SyncTimeout]
         IN  Lifecycle(TimerStep(s1, SyncTimeout), f)

Reconcile(s, f) ==
    IF f = "ts" THEN Return(Failed(s, f), f)
    ELSE IF ~ts.found THEN [s EXCEPT !.last.notFound = TRUE]
    ELSE IF f = "cfg" THEN Return(Failed(s, f), f)
    ELSE LET s1 == [s EXCEPT !.last.timeServers = ts.servers,
                             !.last.syncDisabled = SyncDisabled,
                             !.last.syncTimeout = SyncTimeout]
         IN  Lifecycle(TimerStep(s1, SyncTimeout), f)

BeginCycle(s, arm) ==
    [s EXCEPT !.last =
        [NoCycle EXCEPT !.arm = arm,
                        !.preSyncer = s.syncer,
                        !.preSynced = s.timeSynced,
                        !.preArmed =
                            s.timer # Nil /\ s.timers[s.timer].armed,
                        !.preServers =
                            IF s.syncer # Nil THEN s.workerServers[s.syncer]
                            ELSE <<>>]]

\* ------------------------------------------------------ the select's arms
OnEvent(s) == [s EXCEPT !.eventPending = FALSE]

\* Faulty variant: the synced arm keeps listening to the channel.
OnSyncedKeepsListening(s) == [s EXCEPT !.timeSynced = TRUE]

OnSynced(s) == [s EXCEPT !.syncCh = Nil, !.timeSynced = TRUE]

OnEpoch(s) ==
    [s EXCEPT !.epochPending[s.epochCh] = @ - 1,
              !.epoch = @ + 1,
              !.epochRecv = @ + 1]

OnTimeout(s) ==
    [s EXCEPT !.timers[s.timerCh].pending = FALSE,
              !.timeSynced = TRUE,
              !.timer = Nil]

Cycle(s, f) ==
    LET n == Reconcile(s, f)
    IN  /\ Bounded(n)
        /\ Commit(n)
        /\ UNCHANGED <<envVars, taskVars>>

CtxDoneArm ==
    /\ pc = "select"
    /\ ctxCancelled
    /\ Commit(Return(BeginCycle(State, "ctx"), "nil"))
    /\ UNCHANGED <<envVars, taskVars>>

EventArm ==
    /\ pc = "select"
    /\ eventPending
    /\ \E f \in Failures : Cycle(OnEvent(BeginCycle(State, "event")), f)

SyncedArm ==
    /\ pc = "select"
    /\ syncCh # Nil
    /\ syncedReady[syncCh]
    /\ \E f \in Failures : Cycle(OnSynced(BeginCycle(State, "synced")), f)

EpochArm ==
    /\ pc = "select"
    /\ epochCh # Nil
    /\ epochPending[epochCh] > 0
    /\ \E f \in Failures : Cycle(OnEpoch(BeginCycle(State, "epoch")), f)

TimeoutArm ==
    /\ pc = "select"
    /\ timerCh # Nil
    /\ timers[timerCh].pending
    /\ \E f \in Failures : Cycle(OnTimeout(BeginCycle(State, "timeout")), f)

\* The stop branch after its syncWg.Wait(), to the end of the cycle.
StopWaitDone ==
    /\ pc = "stopWait"
    /\ WaitDone
    /\ \E f \in {"none", "modify"} : Commit(Finish(AfterStop(State), f))
    /\ UNCHANGED <<envVars, taskVars>>

\* The deferred function after its syncWg.Wait().
DeferWaitDone ==
    /\ pc = "deferWait"
    /\ WaitDone
    /\ Commit(DeferredTimerStop(State))
    /\ UNCHANGED <<envVars, taskVars>>

\* Run has not begun to return: what its inputs do afterwards is not observed.
Running == result = "running"

\* ------------------------------------------------- the syncer's goroutine
\* The goroutine starts running: it reads the captured `syncer` and `syncCtx`.
TaskBegin(i) ==
    /\ task[i] = "spawned"
    /\ task' = [task EXCEPT ![i] = IF syncer = Nil THEN "panicked" ELSE "running"]
    /\ taskRun' = [taskRun EXCEPT ![i] = syncer]
    /\ taskCtx' = [taskCtx EXCEPT ![i] = syncCtx]
    /\ UNCHANGED <<envVars, syncedReady, eventPending, pc, result, syncer,
                   syncCh, epochCh, syncCtx, timeSynced, epoch, timer, timerCh,
                   cancelled, syncWg, timers,
                   nextInst, workerServers, epochPending, published,
                   last, epochRecv>>

\* Faulty variant: the goroutine returns without syncWg.Done().
TaskExitNoDone(i) ==
    /\ task[i] = "running"
    /\ taskCtx[i] \in cancelled \/ ctxCancelled
    /\ task' = [task EXCEPT ![i] = "done"]
    /\ UNCHANGED <<envVars, taskVars, eventPending, pc, result, syncer,
                   syncCh, epochCh, syncCtx, timeSynced, epoch, timer, timerCh,
                   cancelled, syncWg, timers,
                   nextInst, workerServers, epochPending, published,
                   last, epochRecv>>

\* syncer.Run(syncCtx) returns once its context is done; then syncWg.Done().
TaskExit(i) ==
    /\ task[i] = "running"
    /\ taskCtx[i] \in cancelled \/ ctxCancelled
    /\ task' = [task EXCEPT ![i] = "done"]
    /\ syncWg' = syncWg - 1
    /\ UNCHANGED <<envVars, taskVars, eventPending, pc, result, syncer,
                   syncCh, epochCh, syncCtx, timeSynced, epoch, timer, timerCh,
                   cancelled, timers,
                   nextInst, workerServers, epochPending, published,
                   last, epochRecv>>

RECURSIVE SumPending(_, _)
SumPending(p, S) ==
    IF S = {} THEN 0
    ELSE LET i == CHOOSE x \in S : TRUE IN p[i] + SumPending(p, S \ {i})

EpochSent == epochRecv + SumPending(epochPending, Workers)

\* The running syncer reports its first synchronisation.
WorkerSynced(i) ==
    /\ Running
    /\ task[i] = "running"
    /\ ~syncedReady[taskRun[i]]
    /\ syncedReady' = [syncedReady EXCEPT ![taskRun[i]] = TRUE]
    /\ UNCHANGED <<envVars, taskRun, taskCtx, loopVars>>

\* The running syncer reports a clock jump.
WorkerEpoch(i) ==
    /\ Running
    /\ task[i] = "running"
    /\ epochPending[taskRun[i]] = 0
    /\ EpochSent < MaxEpoch
    /\ epochPending' = [epochPending EXCEPT ![taskRun[i]] = 1]
    /\ UNCHANGED <<envVars, taskVars, eventPending, pc, result, syncer,
                   syncCh, epochCh, syncCtx, timeSynced, epoch, timer, timerCh,
                   cancelled, syncWg, task, timers,
                   nextInst, workerServers, published,
                   last, epochRecv>>

\* ------------------------------------------------------------ environment
Tick ==
    /\ Running
    /\ now < MaxTime
    /\ now' = now + 1
    /\ UNCHANGED <<cfg, ts, container, ctxCancelled, changes, taskVars, loopVars>>

TimerFire(t) ==
    /\ timers[t].armed
    /\ now >= timers[t].deadline
    /\ timers' = Collect([timers EXCEPT ![t] =
                              [armed |-> FALSE, deadline |-> 0, pending |-> TRUE]],
                          timer, timerCh)
    /\ UNCHANGED <<envVars, taskVars, eventPending, pc, result, syncer,
                   syncCh, epochCh, syncCtx, timeSynced, epoch, timer, timerCh,
                   cancelled, syncWg, task,
                   nextInst, workerServers, epochPending, published,
                   last, epochRecv>>

Notified ==
    UNCHANGED <<taskVars, pc, result, syncer,
                syncCh, epochCh, syncCtx, timeSynced, epoch, timer, timerCh,
                cancelled, syncWg, task, timers,
                nextInst, workerServers, epochPending, published,
                last, epochRecv>>

SetConfig(c) ==
    /\ Running
    /\ changes < MaxChanges
    /\ c # cfg
    /\ cfg' = c
    /\ changes' = changes + 1
    /\ eventPending' = TRUE
    /\ UNCHANGED <<now, ts, container, ctxCancelled>>
    /\ Notified

SetTimeServerStatus(t) ==
    /\ Running
    /\ changes < MaxChanges
    /\ t # ts
    /\ ts' = t
    /\ changes' = changes + 1
    /\ eventPending' = TRUE
    /\ UNCHANGED <<now, cfg, container, ctxCancelled>>
    /\ Notified

\* The runtime notifies Run although neither resource differs.
Notify ==
    /\ Running
    /\ changes < MaxChanges
    /\ ~eventPending
    /\ changes' = changes + 1
    /\ eventPending' = TRUE
    /\ UNCHANGED <<now, cfg, ts, container, ctxCancelled>>
    /\ Notified

Cancel ==
    /\ Running
    /\ ~ctxCancelled
    /\ ctxCancelled' = TRUE
    /\ UNCHANGED <<now, cfg, ts, container, changes, taskVars, loopVars>>

Next ==
    \/ CtxDoneArm
    \/ EventArm
    \/ SyncedArm
    \/ EpochArm
    \/ TimeoutArm
    \/ StopWaitDone
    \/ DeferWaitDone
    \/ \E i \in Workers : TaskBegin(i)
    \/ \E i \in Workers : TaskExit(i)
    \/ \E i \in Workers : WorkerSynced(i)
    \/ \E i \in Workers : WorkerEpoch(i)
    \/ \E t \in TimerIds : TimerFire(t)
    \/ Tick
    \/ \E c \in Configs : SetConfig(c)
    \/ \E t \in TimeServerStatuses : SetTimeServerStatus(t)
    \/ Notify
    \/ Cancel

Spec == Init /\ [][Next]_vars

\* Next, for the runs within LiveChanges and LiveTime.
LiveNext ==
    \/ CtxDoneArm
    \/ EventArm
    \/ SyncedArm
    \/ EpochArm
    \/ TimeoutArm
    \/ StopWaitDone
    \/ DeferWaitDone
    \/ \E i \in Workers : TaskBegin(i)
    \/ \E i \in Workers : TaskExit(i)
    \/ \E i \in Workers : WorkerSynced(i)
    \/ \E i \in Workers : WorkerEpoch(i)
    \/ \E t \in TimerIds : TimerFire(t)
    \/ Tick /\ now' <= LiveTime
    \/ \E c \in Configs : SetConfig(c) /\ changes' <= LiveChanges
    \/ \E t \in TimeServerStatuses :
          SetTimeServerStatus(t) /\ changes' <= LiveChanges
    \/ Notify /\ changes' <= LiveChanges
    \/ Cancel

\* The Go scheduler runs every runnable goroutine, and a select whose
\* ctx.Done() arm stays ready takes it.
FairSpec ==
    /\ Init
    /\ [][LiveNext]_vars
    /\ WF_vars(CtxDoneArm)
    /\ WF_vars(StopWaitDone)
    /\ WF_vars(DeferWaitDone)
    /\ \A i \in Workers : WF_vars(TaskBegin(i)) /\ WF_vars(TaskExit(i))

\* ------------------------------------------------------------ properties
Active == {i \in Workers : task[i] \in {"spawned", "running"}}

Terminated == \A i \in Workers : task[i] \in {"none", "done"}

\* The loop waits in its select and nothing it listens to is ready.
Idle ==
    /\ pc = "select"
    /\ Running
    /\ ~ctxCancelled
    /\ ~eventPending
    /\ ~(syncCh # Nil /\ syncedReady[syncCh])
    /\ ~(epochCh # Nil /\ epochPending[epochCh] > 0)

\* The deadline event can still reach the loop.
DeadlineDue ==
    timerCh # Nil /\ (timers[timerCh].armed \/ timers[timerCh].pending)

\* C1 (deadline fallback): with bootTimeout = T > 0, sync enabled and no
\* synced signal from the worker, the synced flag is true and published once
\* the time has reached boot + T.  Stated on the states in which the loop
\* waits with nothing ready: once boot + T has passed, either synced = true is
\* published or the deadline event is still on its way to the loop.
C1_DeadlineFallback ==
    (/\ Idle
     /\ last.full
     /\ ~last.syncDisabled
     /\ last.syncTimeout > 0
     /\ now - BootTime >= last.syncTimeout)
    => \/ timeSynced /\ published.synced
       \/ DeadlineDue

\* C2 (disable toggling): a cycle stops the worker exactly once when it finds
\* a worker and decides disabled, starts exactly one fresh instance when it
\* finds none and decides enabled, and does neither otherwise.
C2_DisableToggling ==
    /\ (last.full \/ pc = "stopWait") =>
          /\ last.stops =
                (IF last.preSyncer # Nil /\ last.syncDisabled THEN 1 ELSE 0)
          /\ last.starts =
                (IF last.preSyncer = Nil /\ ~last.syncDisabled THEN 1 ELSE 0)
          /\ last.starts = 1 =>
                /\ syncer = nextInst - 1
                /\ syncer # last.preSyncer
    /\ \A i \in Workers : i >= nextInst => task[i] = "none"

C2_Witness ==
    /\ last.full
    /\ last.starts = 1
    /\ nextInst = 3
    /\ task[1] = "done"

\* C3 (monotone epoch): the epoch counter moves only by +1, on an
\* epoch-changed signal taken by the select; the published epoch never
\* decreases and every write publishes the number of signals taken so far,
\* whatever workers were stopped or started in between.
C3_MonotoneEpoch ==
    [][/\ epoch' - epoch = epochRecv' - epochRecv
       /\ epoch' - epoch \in {0, 1}
       /\ published'.epoch >= published.epoch
       /\ last'.writes > 0 /\ Running' => published'.epoch = epochRecv']_vars

C3_Witness ==
    /\ last.full
    /\ published.epoch = 1
    /\ nextInst = 3
    /\ last.starts = 1

\* C4 (one worker): at most one syncer goroutine is alive, it is the one of
\* the current handle, it runs the syncer and the context it was started
\* for, and the handle is cleared only once it has terminated.
C4_OneWorker ==
    /\ Cardinality(Active) <= 1
    /\ syncWg = Cardinality(Active)
    /\ \A i \in Active : syncer = i /\ syncCtx = i
    /\ \A i \in Workers :
          /\ task[i] # "panicked"
          /\ task[i] \in {"running", "done"} => taskRun[i] = i /\ taskCtx[i] = i

C4_Witness ==
    /\ task[1] = "done"
    /\ task[2] = "running"

\* C5 (disabled is trivially synced): a status written by a cycle that
\* decided disabled has synced = true and syncDisabled = true, and no worker
\* runs when it is written.
C5_DisabledSynced ==
    (last.writes > 0 /\ last.syncDisabled) =>
        /\ published.synced
        /\ published.syncDisabled
        /\ syncer = Nil
        /\ Active = {}

C5_Witness ==
    /\ last.writes > 0
    /\ last.syncDisabled
    /\ last.preSyncer # Nil
    /\ ~last.preSynced

C7_NotFound ==
    /\ last.notFound =>
          /\ last.stops = 0
          /\ last.starts = 0
          /\ last.sets = 0
          /\ last.writes = 0
          /\ syncer = last.preSyncer
          /\ pc = "select"
    /\ (pc = "select" /\ Running /\ last.arm # "none" /\ ~last.notFound) =>
          last.full

C7_Witness ==
    /\ last.notFound
    /\ last.preSyncer # Nil
    /\ published.written

\* C8 (live update): a cycle that finds a worker and decides enabled calls
\* SetTimeServers once with the list it read, keeps the instance and does not
\* reset the synced flag.
C8_LiveUpdate ==
    (last.full /\ last.preSyncer # Nil /\ ~last.syncDisabled) =>
        /\ last.sets = 1
        /\ last.stops = 0
        /\ last.starts = 0
        /\ syncer = last.preSyncer
        /\ workerServers[syncer] = last.timeServers
        /\ task[syncer] # "none"
        /\ last.preSynced => timeSynced

C8_Witness ==
    /\ last.full
    /\ last.arm = "event"
    /\ last.preSyncer # Nil
    /\ ~last.syncDisabled
    /\ last.preServers # last.timeServers
    /\ last.preSynced

\* C9 (handle matches the decision): after a cycle that reached the status
\* write there is a worker handle exactly if the cycle decided enabled.
C9_HandleIffEnabled ==
    last.full => (syncer # Nil <=> ~last.syncDisabled)

C9_Witness ==
    /\ last.full
    /\ last.syncDisabled
    /\ last.preSyncer # Nil
    /\ syncer = Nil

\* C10 (total status): after a cycle that reached the status write the
\* published status is exactly the epoch, the synced flag and the disabled
\* decision of the loop.
C10_StatusTotal ==
    last.full =>
        published = StatusSpec(epoch, timeSynced, last.syncDisabled)

C10_Witness ==
    /\ last.full
    /\ last.preSynced
    /\ ~published.synced
    /\ published.epoch = 1

C12_SyncedMonotone ==
    [][/\ (timeSynced /\ ~timeSynced') => last'.starts = 1
       /\ (published.synced /\ ~published'.synced) => last'.starts = 1]_vars

C12_Witness ==
    /\ last.full
    /\ last.arm = "event"
    /\ last.preSynced
    /\ last.preSyncer # Nil
    /\ ~last.syncDisabled
    /\ last.syncTimeout > now - BootTime
    /\ timeSynced
    /\ published.synced

\* C13 (timer arming): after a cycle that reached the status write no
\* deadline event can reach the loop when the bootTimeout it read is 0 or
\* the synced flag is true.
C13_TimerArming ==
    last.full =>
        /\ (last.syncTimeout = 0 \/ timeSynced) => ~DeadlineDue
        /\ DeadlineDue => (~timeSynced /\ last.syncTimeout > 0)

\* C14 (every signal fully processed): when the loop waits again after
\* taking a synced signal, an epoch-changed signal or a timer firing, the
\* cycle has run through to the status write and the signal's effect is
\* published.
C14_SignalProcessed ==
    (pc = "select" /\ Running /\ last.arm \in {"synced", "epoch", "timeout"}) =>
        /\ last.full
        /\ published.epoch = epochRecv
        /\ last.arm = "synced" => published.synced

C16_ZeroDisarms ==
    (last.full /\ last.preArmed /\ last.syncTimeout = 0) => ~DeadlineDue

\* C17 (signals of a past worker): the loop listens only to channels of the
\* current syncer, stops listening for synced signals once it took one, and
\* takes signals only from the current syncer; what a stopped syncer left
\* pending stays where it is.
C17_PastWorkerSignals ==
    [][/\ syncCh' # Nil => syncCh' = syncer'
       /\ epochCh' # Nil => epochCh' = syncer'
       /\ last'.arm = "synced" => syncCh' = Nil
       /\ (pc = "select" /\ last'.arm = "synced" /\ last' # last) =>
              syncer # Nil /\ syncCh = syncer /\ syncedReady[syncer]
       /\ epoch' # epoch =>
              syncer # Nil /\ epochCh = syncer /\ epochPending[syncer] > 0
       /\ \A i \in Workers :
              (i < nextInst /\ i # syncer) =>
                  epochPending'[i] = epochPending[i]]_vars

C17_Witness ==
    /\ syncer = 2
    /\ last.full
    /\ last.preSyncer = 2
    /\ epochPending[1] > 0
    /\ syncedReady[1]
    /\ ~timeSynced
    /\ epochRecv = 0

\* A step of the loop that leaves the select.
CycleStep ==
    /\ pc = "select"
    /\ last' # last \/ (eventPending /\ ~eventPending') \/ epoch' # epoch

\* C18 (disabled decision and defaults): a cycle that passes the reads
\* decides disabled exactly if the controller runs in container mode or the
\* configuration exists and disables time sync; without a configuration it
\* goes on with bootTimeout = 0 and the mode flag alone.
C18_DisabledDecision ==
    [][CycleStep =>
          /\ (last'.full \/ pc' = "stopWait") =>
                /\ last'.syncDisabled = (container \/ (cfg.found /\ cfg.disabled))
                /\ last'.syncTimeout = (IF cfg.found THEN cfg.bootTimeout ELSE 0)
          /\ (~cfg.found /\ ts.found /\ last'.arm # "ctx"
                  /\ last'.failure = "none") =>
                /\ last'.full \/ pc' = "stopWait"
                /\ last'.syncDisabled = container
                /\ last'.syncTimeout = 0]_vars

C18_Witness ==
    /\ last.full
    /\ ~cfg.found
    /\ ~container
    /\ ~last.syncDisabled
    /\ last.syncTimeout = 0
    /\ syncer # Nil
    /\ changes = 1

\* C19 (loop termination): Run returns only after the external cancellation
\* (or with a store error); once the context is cancelled Run returns, and
\* the wait of the stop branch always ends.
C19_Termination ==
    /\ [](~Running =>
            \/ result = "nil" /\ ctxCancelled
            \/ result \in Errors /\ last.failure = result)
    /\ ctxCancelled ~> pc = "done"
    /\ pc = "stopWait" ~> pc # "stopWait"

C19_Witness ==
    /\ pc = "done"
    /\ result = "nil"
    /\ task[1] = "done"
    /\ last.preSyncer = Nil
    /\ published.syncDisabled

\* C20 (synced has a valid cause): a cycle that turns the synced flag true
\* with sync enabled either took the synced signal of the current worker or
\* read a nonzero bootTimeout that has been reached.
C20_ValidCause ==
    (last.full /\ ~last.syncDisabled /\ ~last.preSynced /\ published.synced) =>
        \/ last.arm = "synced"
        \/ last.syncTimeout > 0 /\ now - BootTime >= last.syncTimeout

====
